---------------------------- MODULE Spec2Model ----------------------------
(***************************************************************************)
(* State-machine model of the host side of cmp-embed:                      *)
(*   - EventReceiver / UIReceiver  (juce_cmp/EventReceiver.h, UIReceiver.h) *)
(*     reader thread, coalescing table, deliveries on the message thread   *)
(*   - ChildProcess                (juce_cmp/ChildProcess.cpp)             *)
(*   - ComposeProvider             (juce_cmp/ComposeProvider.cpp)          *)
(***************************************************************************)
EXTENDS Integers, Sequences, FiniteSets, TLC

(***************************************************************************)
(* Bounds of the model                                                     *)
(***************************************************************************)
MaxFrames == 3          \* frame headers the remote end delivers per behaviour

(***************************************************************************)
(* Program constants                                                       *)
(***************************************************************************)
MaxMessageSize == 1048576      \* 1024 * 1024, the "Max 1MB" sanity bound
HeaderSize == 4                \* sizeof(uint32_t)

VARIABLES
    \* ---- receiver object (EventReceiver or UIReceiver) ----
    cls,            \* which class was constructed
    onCustomEvent,  \* TRUE iff a handler is registered
    running,        \* std::atomic<bool> running
    fd,             \* int fd
    pendingTrees,   \* std::map<String, ValueTree>: function key -> tree
    \* ---- reader thread ----
    rpc,            \* position of the reader thread ("none": no thread object)
    want,           \* readFully: size argument
    totalRead,      \* readFully: totalRead
    size,           \* uint32_t size of the current iteration
    tree,           \* the tree parsed in the current iteration
    key,            \* enqueue: the coalescing key (captured by the lambda)
    \* ---- control thread inside receiver.stop() ----
    epc,
    \* ---- juce::MessageManager (the single consumer context) ----
    asyncQueue,     \* callAsync lambdas not yet run, FIFO
    mpc,            \* position of the message thread inside a lambda
    lambdaKey,      \* the key captured by the lambda being run
    treeToDispatch, \* local of the lambda being run
    \* ---- history (not program state) ----
    nframes,        \* headers completely read so far
    delivered,      \* handler invocations, in order
    arrived,        \* trees stored in / dispatched by the receiver, in order
    burstStart,     \* Len(arrived) when the consumer last began to run a delivery
    lastBurst,      \* burst of the key of the delivery that ran last
    allocs,         \* MemoryBlock allocations of the current loop iteration
    payloadReads,   \* payload read() calls of the current loop iteration
    violation,      \* the running reader thread met a header with an illegal length
    \* ---- the one-shot first-frame signal of ipc_ ----
    firstFrame,     \* the signal was raised since the last start()
    readyCalls      \* history: calls of firstFrameCallback_ since the last start()

rvars == <<cls, onCustomEvent, running, fd, pendingTrees, rpc, want, totalRead,
           size, tree, key, epc, asyncQueue, mpc, lambdaKey, treeToDispatch,
           nframes, delivered, arrived, burstStart, lastBurst, allocs,
           payloadReads, violation, firstFrame, readyCalls>>

VARIABLES
    \* ---- ChildProcess object ----
    childPid_,      \* pid_t childPid_
    stdinPipeFD_,   \* int stdinPipeFD_
    stdoutPipeFD_,  \* int stdoutPipeFD_
    \* ---- control thread inside ChildProcess::stop() ----
    kpc,            \* position inside stop() ("idle": not inside stop)
    i,              \* the loop variable of the grace loop
    \* ---- operating system ----
    openFds,        \* descriptors open in the host process
    procs,          \* pid -> [status, image, sigkill] of every process forked
    \* ---- history (not program state) ----
    launches,       \* calls of launch() so far
    launchRet,      \* value returned by the last launch(): "none", "true", "false"
    sawExit,        \* in the current/last stop(): a poll returned non-zero
    alivePolls,     \* in the current/last stop(): the polls that returned 0:
                    \* "none", "some", or "all" GracePolls of them
    killSent,       \* in the current/last stop(): kill(childPid_, SIGKILL) was called
    finalWaits      \* in the current/last stop(): blocking waitpid calls returned

cvars == <<childPid_, stdinPipeFD_, stdoutPipeFD_, kpc, i, openFds, procs,
           launches, launchRet, sawExit, alivePolls, killSent, finalWaits>>

VARIABLES
    \* ---- ComposeProvider object ----
    apple,           \* TRUE iff compiled with __APPLE__
    surface_,        \* "none" or "created"
    machServer,      \* machPortIPC_ has a registered server
    machPortThread_, \* "none" (not joinable), "sending" or "done"
    view_,           \* TRUE iff the view exists
    \* ---- control thread inside ComposeProvider::launch() / stop() ----
    spc,             \* position inside launch() ("idle": not inside launch)
    machService,     \* launch(): machService is not empty
    stopAt,          \* position inside stop(): index into StopSequence, 0 outside
    scale_,          \* the scale given to the last launch(), times 100
    generation,      \* surface_.getID(): the generation of the surface, 0 if none
    viewSurface,     \* the generation the view displays, 0 if none
    viewPending,     \* the generation the view adopts at its next paint, 0 if none
    ipcOut,          \* the descriptor ipc_ writes to (ipc_.setSocketFD)
    \* ---- history (not program state) ----
    sent,            \* what ipc_ was asked to send since the last launch(),
                     \* in order, and where each write ended up
    ported,          \* the generations whose Mach port was handed to the
                     \* thread of machPortThread_ since the last launch()
    slaunches,       \* calls of ComposeProvider::launch() so far
    sessRet,         \* value returned by the last launch(): "none", "true", "false"
    acquisition,     \* resources acquired by the last launch(), in order
    teardown         \* what the current/last stop() has done, in order

\* what resize() and sendInput() read and write besides the log
shared == <<scale_, generation, viewSurface, viewPending, ipcOut>>

svars == <<apple, surface_, machServer, machPortThread_, view_, spc, machService,
           stopAt, shared, sent, ported, slaunches, sessRet, acquisition,
           teardown>>

VARIABLES
    \* ---- the thread that calls ComposeProvider::resize() / sendInput() ----
    wpc,             \* position inside resize() ("idle": not inside)
    pixelW,          \* resize(): local
    pixelH,          \* resize(): local
    \* ---- the rest of the host process ----
    foreign,         \* descriptors opened by other code of the process
    \* ---- history (not program state) ----
    ncalls,          \* calls of resize() and sendInput() so far
    lastCall         \* the last of them: "none", "sendInput", "resize:ignored"
                     \* (a size that is not positive), "resize:failed" (the
                     \* allocation failed) or "resize:ok"

wvars == <<wpc, pixelW, pixelH, foreign, ncalls, lastCall>>

VARIABLE
    budget           \* what the environment does in a behaviour: the number of
                     \* frame headers the remote end delivers, the number of
                     \* launch() calls, the keys of the messages sent, the
                     \* number of resize()/sendInput() calls, and the number
                     \* of descriptors the rest of the process opens

vars == <<rvars, cvars, svars, wvars, budget>>

(***************************************************************************)
(* juce::ValueTree and juce::String values.  A string is the sequence of   *)
(* its tokens, so that concatenation is \o and equality is string equality.*)
(***************************************************************************)
Ids == {0, 1}

ParamType == <<"param">>

InvalidTree == [type |-> <<>>, hasId |-> FALSE, id |-> 0, value |-> 0]

isValid(t) == t.type # <<>>

\* the trees a payload can decode to; v identifies the message (its value)
Trees(v) ==
    {[type |-> ParamType, hasId |-> TRUE, id |-> n, value |-> v] : n \in Ids}
    \cup {[type |-> <<"param", "_", "0">>, hasId |-> FALSE, id |-> 0, value |-> v]}

\* juce::var::toString of a small non-negative integer
toString(n) == IF n = 0 THEN <<"0">> ELSE <<"1">>

\* the coalescing key of enqueue()
CoalescingKey(t) ==
    IF t.type = ParamType /\ t.hasId
    THEN t.type \o <<"_">> \o toString(t.id)
    ELSE t.type

Keys == {CoalescingKey(t) : t \in Trees(0)}

\* the header values the remote end sends
Sizes == {0, MaxMessageSize, MaxMessageSize + 1}

\* results of one ::read(fd, ptr, rem): error, end of stream, a short read
\* (only as the first read of a readFully), or everything asked for
ReadResults(rem, first) ==
    {-1, 0, rem} \cup (IF first /\ rem > 1 THEN {1} ELSE {})

hist == <<nframes, delivered, arrived, burstStart, lastBurst, allocs,
          payloadReads, violation>>
readerLocals == <<want, totalRead, size, tree, key>>
consumer == <<asyncQueue, mpc, lambdaKey, treeToDispatch>>
ready == <<firstFrame, readyCalls>>

EmptyMap == [k \in {} |-> InvalidTree]

\* the trees stored under key k since the consumer last began to run a delivery
Burst(k) ==
    SelectSeq(SubSeq(arrived, burstStart + 1, Len(arrived)),
              LAMBDA t : CoalescingKey(t) = k)

InitReceiverOf(c) ==
    /\ cls = c
    /\ onCustomEvent = FALSE
    /\ running = FALSE
    /\ fd = -1
    /\ pendingTrees = EmptyMap
    /\ rpc = "none"
    /\ want = 0
    /\ totalRead = 0
    /\ size = 0
    /\ tree = InvalidTree
    /\ key = <<>>
    /\ epc = "idle"
    /\ asyncQueue = <<>>
    /\ mpc = "idle"
    /\ lambdaKey = <<>>
    /\ treeToDispatch = InvalidTree
    /\ nframes = 0
    /\ delivered = <<>>
    /\ arrived = <<>>
    /\ burstStart = 0
    /\ lastBurst = <<>>
    /\ allocs = 0
    /\ payloadReads = 0
    /\ violation = FALSE
    /\ firstFrame = FALSE
    /\ readyCalls = 0

InitReceiver == \E c \in {"EventReceiver", "UIReceiver"} : InitReceiverOf(c)

(***************************************************************************)
(* Receiver: calls made by the owner on the control thread                 *)
(***************************************************************************)

\* setCustomEventHandler(handler); h is "handler is non-empty".  The field is
\* not synchronised: it is set while no reader thread exists.
setCustomEventHandler(h) ==
    /\ rpc = "none" /\ epc = "idle"
    /\ onCustomEvent' = h
    /\ UNCHANGED <<ready, cls, running, fd, pendingTrees, rpc, readerLocals, epc,
                   consumer, hist>>

\* start(stdoutPipeFD): both early returns are the guard
start(stdoutPipeFD) ==
    /\ epc = "idle"
    /\ ~running
    /\ ~(stdoutPipeFD < 0)
    /\ fd' = stdoutPipeFD
    /\ running' = TRUE
    /\ rpc' = "top"
    /\ violation' = FALSE
    /\ firstFrame' = FALSE
    /\ readyCalls' = 0
    /\ UNCHANGED <<cls, onCustomEvent, pendingTrees, readerLocals, epc, consumer,
                   nframes, delivered, arrived, burstStart, lastBurst, allocs,
                   payloadReads>>

\* stop(): running.store(false), then join if joinable
stopStore ==
    /\ epc = "idle"
    /\ running' = FALSE
    /\ epc' = IF rpc # "none" THEN "join" ELSE "idle"
    /\ UNCHANGED <<ready, cls, onCustomEvent, fd, pendingTrees, rpc, readerLocals,
                   consumer, hist>>

\* readerThread.join() returns once the thread function has returned
stopJoin ==
    /\ epc = "join"
    /\ rpc = "exited"
    /\ rpc' = "none"
    /\ epc' = "idle"
    /\ UNCHANGED <<ready, cls, onCustomEvent, running, fd, pendingTrees, readerLocals,
                   consumer, hist>>

(***************************************************************************)
(* Reader thread: the lambda of start().  Locals are reset when they go    *)
(* out of scope.                                                           *)
(***************************************************************************)

\* while (running.load()) { uint32_t size = 0; readFully(&size, sizeof(size))
LoopTop(c) ==
    /\ cls = c
    /\ rpc = "top"
    /\ IF running
       THEN /\ rpc' = "hdr_test"
            /\ want' = HeaderSize
       ELSE /\ rpc' = "exited"
            /\ UNCHANGED want
    /\ allocs' = 0
    /\ payloadReads' = 0
    /\ UNCHANGED <<ready, cls, onCustomEvent, running, fd, pendingTrees, totalRead, size,
                   tree, key, epc, consumer, nframes, delivered, arrived,
                   burstStart, lastBurst, violation>>

\* if (bytesRead != sizeof(size)) break;  -- otherwise size holds the header
HeaderRead(bytesRead) ==
    IF bytesRead # HeaderSize
    THEN /\ rpc' = "exited"
         /\ UNCHANGED <<size, nframes>>
    ELSE /\ \E s \in Sizes : size' = s
         /\ nframes' = nframes + 1
         /\ rpc' = "chk"

\* if (bytesRead != static_cast<ssize_t>(size)) break;
PayloadRead(bytesRead) ==
    /\ IF bytesRead # size
       THEN rpc' = "exited" /\ size' = 0
       ELSE rpc' = "parse" /\ size' = size
    /\ UNCHANGED nframes

\* return from readFully to its call site
readFullyReturn(r) ==
    /\ IF rpc \in {"hdr_test", "hdr_read"} THEN HeaderRead(r) ELSE PayloadRead(r)
    /\ want' = 0
    /\ totalRead' = 0

\* readFully: while (totalRead < size && running.load())
readFullyTest(c) ==
    /\ cls = c
    /\ rpc \in {"hdr_test", "pay_test"}
    /\ IF totalRead < want /\ running
       THEN /\ rpc' = IF rpc = "hdr_test" THEN "hdr_read" ELSE "pay_read"
            /\ UNCHANGED <<size, nframes, want, totalRead>>
       ELSE readFullyReturn(totalRead)
    /\ UNCHANGED <<ready, cls, onCustomEvent, running, fd, pendingTrees, tree, key, epc,
                   consumer, delivered, arrived, burstStart, lastBurst, allocs,
                   payloadReads, violation>>

\* readFully: n = ::read(fd, ...); if (n <= 0) return ...; totalRead += n;
readFullyRead(c) ==
    /\ cls = c
    /\ rpc \in {"hdr_read", "pay_read"}
    /\ \E n \in ReadResults(want - totalRead, totalRead = 0) :
         /\ (n > 0 /\ rpc = "hdr_read") => nframes < budget.frames
         /\ IF n <= 0
            THEN readFullyReturn(IF totalRead > 0 THEN totalRead ELSE n)
            ELSE /\ totalRead' = totalRead + n
                 /\ rpc' = IF rpc = "hdr_read" THEN "hdr_test" ELSE "pay_test"
                 /\ UNCHANGED <<size, nframes, want>>
    /\ payloadReads' = IF rpc = "pay_read" THEN payloadReads + 1 ELSE payloadReads
    /\ UNCHANGED <<ready, cls, onCustomEvent, running, fd, pendingTrees, tree, key, epc,
                   consumer, delivered, arrived, burstStart, lastBurst, allocs,
                   violation>>

\* (variant: the test for an empty frame is missing)
BadSize_NoZero(s) == s > MaxMessageSize

\* the "Max 1MB" test on the header
BadSize(s) == s = 0 \/ s > MaxMessageSize

\* if (size == 0 || size > 1024 * 1024) break;  juce::MemoryBlock data(size);
SanityCheck(c) ==
    /\ cls = c
    /\ rpc = "chk"
    /\ IF BadSize(size)
       THEN /\ rpc' = "exited"
            /\ violation' = TRUE
            /\ size' = 0
            /\ UNCHANGED <<want, allocs>>
       ELSE /\ allocs' = allocs + 1
            /\ want' = size
            /\ rpc' = "pay_test"
            /\ UNCHANGED <<violation, size>>
    /\ UNCHANGED <<ready, cls, onCustomEvent, running, fd, pendingTrees, totalRead, tree,
                   key, epc, consumer, nframes, delivered, arrived, burstStart,
                   lastBurst, payloadReads>>

\* auto tree = juce::ValueTree::readFromData(...); if (tree.isValid()) ...
\* the number of calls of firstFrameCallback_ made by invoking, if invoked
\* is TRUE, a handler that calls the callbacks named in handler
Calls(invoked, handler) ==
    IF invoked /\ "firstFrameCallback_" \in handler THEN 1 ELSE 0

\* (variant: the event handler calls the first-frame callback as well)
EventHandler_CallsBoth == {"eventCallback_", "firstFrameCallback_"}

\* the handler ComposeProvider::launch gives ipc_.setEventHandler: it calls
\* eventCallback_
EventHandler == {"eventCallback_"}

\* the handler ComposeProvider::launch gives ipc_.setFirstFrameHandler: it
\* calls firstFrameCallback_
FirstFrameHandler == {"firstFrameCallback_"}

\* ipc_ raises the one-shot signal: on the first successful decode since
\* startReceiving(), on the host's side of the channel
FirstFrameDue(c, t) == c = "EventReceiver" /\ isValid(t) /\ ~firstFrame

\* (variant: a payload that does not decode ends the loop)
AfterInvalidTree_Break == "exited"

\* if (tree.isValid()) enqueue(tree); -- no else: on to the next iteration
AfterInvalidTree == "top"

Parse(c) ==
    /\ cls = c
    /\ rpc = "parse"
    /\ \E t \in {u \in Trees(nframes) : CoalescingKey(u) \in budget.keys}
                 \cup {InvalidTree} :
         /\ IF isValid(t)
            THEN tree' = t /\ rpc' = "deliver"
            ELSE tree' = InvalidTree /\ rpc' = AfterInvalidTree
         /\ firstFrame' = (firstFrame \/ FirstFrameDue(c, t))
         /\ readyCalls' = readyCalls + Calls(FirstFrameDue(c, t), FirstFrameHandler)
    /\ size' = 0
    /\ UNCHANGED <<cls, onCustomEvent, running, fd, pendingTrees, want, totalRead,
                   key, epc, consumer, hist>>

(***************************************************************************)
(* EventReceiver::enqueue and its callAsync lambda                         *)
(***************************************************************************)

\* (variant: an entry that is present is kept, as std::map::insert would)
Store_KeepFirst(table, k, t) ==
    [x \in DOMAIN table \cup {k} |-> IF x \in DOMAIN table THEN table[x] ELSE t]

\* pendingTrees[key] = tree;
Store(table, k, t) ==
    [x \in DOMAIN table \cup {k} |-> IF x = k THEN t ELSE table[x]]

\* pendingTrees.erase(it);
Erase(table, k) == [x \in DOMAIN table \ {k} |-> table[x]]

\* (variants: every message schedules a delivery / only a replacement does)
SchedulesDispatch_Always(wasEmpty) == TRUE
SchedulesDispatch_Inverted(wasEmpty) == ~wasEmpty

\* if (!wasEmpty) return;  -- callAsync is reached only for a new key
SchedulesDispatch(wasEmpty) == wasEmpty

\* callAsync lambdas: [this, key] of enqueue, [this, tree] of dispatch
EnqueueLambda(k) == [kind |-> "enqueue", key |-> k, tree |-> InvalidTree]
DispatchLambda(t) == [kind |-> "dispatch", key |-> <<>>, tree |-> t]

\* enqueue(tree) up to the end of the pendingMutex critical section
enqueue ==
    /\ cls = "EventReceiver"
    /\ rpc = "deliver"
    /\ IF ~onCustomEvent
       THEN /\ rpc' = "top"
            /\ UNCHANGED <<pendingTrees, key, arrived>>
       ELSE LET k == CoalescingKey(tree)
                wasEmpty == k \notin DOMAIN pendingTrees
            IN  /\ pendingTrees' = Store(pendingTrees, k, tree)
                /\ arrived' = Append(arrived, tree)
                /\ IF SchedulesDispatch(wasEmpty)
                   THEN rpc' = "async" /\ key' = k
                   ELSE rpc' = "top" /\ key' = <<>>
    /\ tree' = InvalidTree
    /\ UNCHANGED <<ready, cls, onCustomEvent, running, fd, want, totalRead, size, epc,
                   consumer, nframes, delivered, burstStart, lastBurst, allocs,
                   payloadReads, violation>>

\* juce::MessageManager::callAsync([this, key]() {...});
enqueueCallAsync ==
    /\ cls = "EventReceiver"
    /\ rpc = "async"
    /\ asyncQueue' = Append(asyncQueue, EnqueueLambda(key))
    /\ key' = <<>>
    /\ rpc' = "top"
    /\ UNCHANGED <<ready, cls, onCustomEvent, running, fd, pendingTrees, want, totalRead,
                   size, tree, epc, mpc, lambdaKey, treeToDispatch, hist>>

\* the lambda of enqueue, first half: the pendingMutex critical section
deliverPop ==
    /\ mpc = "idle"
    /\ asyncQueue # <<>>
    /\ Head(asyncQueue).kind = "enqueue"
    /\ LET k == Head(asyncQueue).key
       IN  /\ lambdaKey' = k
           /\ IF k \in DOMAIN pendingTrees
              THEN /\ treeToDispatch' = pendingTrees[k]
                   /\ pendingTrees' = Erase(pendingTrees, k)
              ELSE /\ treeToDispatch' = InvalidTree
                   /\ UNCHANGED pendingTrees
           /\ lastBurst' = Burst(k)
    /\ burstStart' = Len(arrived)
    /\ asyncQueue' = Tail(asyncQueue)
    /\ mpc' = "call"
    /\ UNCHANGED <<ready, cls, onCustomEvent, running, fd, rpc, readerLocals, epc,
                   nframes, delivered, arrived, allocs, payloadReads, violation>>

\* the lambda of enqueue, second half:
\* if (treeToDispatch.isValid() && onCustomEvent) onCustomEvent(treeToDispatch);
deliverCall ==
    /\ mpc = "call"
    /\ delivered' = IF isValid(treeToDispatch) /\ onCustomEvent
                    THEN Append(delivered, treeToDispatch)
                    ELSE delivered
    /\ treeToDispatch' = InvalidTree
    /\ lambdaKey' = <<>>
    /\ mpc' = "idle"
    /\ readyCalls' = readyCalls
                        + Calls(isValid(treeToDispatch) /\ onCustomEvent, EventHandler)
    /\ UNCHANGED <<firstFrame, cls, onCustomEvent, running, fd, pendingTrees, rpc,
                   readerLocals, epc, asyncQueue, nframes, arrived, burstStart,
                   lastBurst, allocs, payloadReads, violation>>

(***************************************************************************)
(* UIReceiver::dispatch and its callAsync lambda                           *)
(***************************************************************************)

\* dispatch(tree): if (onCustomEvent) callAsync([this, tree]() {...});
dispatch ==
    /\ cls = "UIReceiver"
    /\ rpc = "deliver"
    /\ IF onCustomEvent
       THEN /\ asyncQueue' = Append(asyncQueue, DispatchLambda(tree))
            /\ arrived' = Append(arrived, tree)
       ELSE UNCHANGED <<asyncQueue, arrived>>
    /\ tree' = InvalidTree
    /\ rpc' = "top"
    /\ UNCHANGED <<ready, cls, onCustomEvent, running, fd, pendingTrees, want, totalRead,
                   size, key, epc, mpc, lambdaKey, treeToDispatch, nframes,
                   delivered, burstStart, lastBurst, allocs, payloadReads,
                   violation>>

\* the lambda of dispatch: if (onCustomEvent) onCustomEvent(tree);
dispatchRun ==
    /\ mpc = "idle"
    /\ asyncQueue # <<>>
    /\ Head(asyncQueue).kind = "dispatch"
    /\ delivered' = IF onCustomEvent
                    THEN Append(delivered, Head(asyncQueue).tree)
                    ELSE delivered
    /\ burstStart' = Len(arrived)
    /\ asyncQueue' = Tail(asyncQueue)
    /\ UNCHANGED <<ready, cls, onCustomEvent, running, fd, pendingTrees, rpc,
                   readerLocals, epc, mpc, lambdaKey, treeToDispatch, nframes,
                   arrived, lastBurst, allocs, payloadReads, violation>>

(***************************************************************************)
(* ChildProcess (ChildProcess.cpp, POSIX branch)                           *)
(***************************************************************************)
MaxLaunches == 3        \* calls of launch() per behaviour

GracePolls == 20        \* for (int i = 0; i < 20; ++i)


InitChildProcess ==
    /\ childPid_ = 0
    /\ stdinPipeFD_ = -1
    /\ stdoutPipeFD_ = -1
    /\ kpc = "idle"
    /\ i = 0
    /\ openFds = {0, 1, 2}
    /\ procs = [p \in {} |-> 0]
    /\ launches = 0
    /\ launchRet = "none"
    /\ sawExit = FALSE
    /\ alivePolls = "none"
    /\ killSent = FALSE
    /\ finalWaits = 0

\* a ComposeProvider after construction, compiled with (a) or without __APPLE__
InitComposeProviderOn(a) ==
    /\ apple = a
    /\ surface_ = "none"
    /\ machServer = FALSE
    /\ machPortThread_ = "none"
    /\ view_ = FALSE
    /\ spc = "idle"
    /\ machService = FALSE
    /\ stopAt = 0
    /\ scale_ = 100
    /\ generation = 0
    /\ viewSurface = 0
    /\ viewPending = 0
    /\ ipcOut = -1
    /\ wpc = "idle"
    /\ pixelW = 0
    /\ pixelH = 0
    /\ foreign = {}
    /\ ncalls = 0
    /\ lastCall = "none"
    /\ sent = <<>>
    /\ ported = {}
    /\ slaunches = 0
    /\ sessRet = "none"
    /\ acquisition = <<>>
    /\ teardown = <<>>

InitComposeProvider == \E a \in BOOLEAN : InitComposeProviderOn(a)

\* the descriptor the kernel hands out next: the lowest one not open
LowestFree(open) ==
    CHOOSE n \in 0 .. Cardinality(open) :
        n \notin open /\ \A m \in 0 .. Cardinality(open) : m \notin open => n <= m

\* pipe(): the two descriptors, read end first
PipeFds(open) ==
    LET r == LowestFree(open)
    IN  <<r, LowestFree(open \cup {r})>>

\* fork(): the pid of the new process
NewPid == Cardinality(DOMAIN procs) + 1

Forked == [status |-> "alive", image |-> "fork", sigkill |-> FALSE]

\* kill(pid, 0) == 0: the process exists, running or not yet reaped
Exists(pid) == pid \in DOMAIN procs /\ procs[pid].status # "reaped"

\* bool ChildProcess::isRunning() const
isRunning ==
    IF childPid_ <= 0 THEN FALSE ELSE Exists(childPid_)

\* second pipe() failed: close(stdinPipes[0]); close(stdinPipes[1]);
\* (C arrays count from 0, the pairs of the model from 1)
ClosedOnPipeFailure(stdinPipes) == {stdinPipes[1], stdinPipes[2]}

\* (variant: the fork-failure path forgets close(stdoutPipes[0]))
ClosedOnForkFailure_Leak(stdinPipes, stdoutPipes) ==
    {stdinPipes[1], stdinPipes[2], stdoutPipes[2]}

\* fork failed: all four ends are closed
ClosedOnForkFailure(stdinPipes, stdoutPipes) ==
    {stdinPipes[1], stdinPipes[2], stdoutPipes[1], stdoutPipes[2]}

\* parent process: close(stdinPipes[0]); close(stdoutPipes[1]);
ClosedInParent(stdinPipes, stdoutPipes) == {stdinPipes[1], stdoutPipes[2]}

\* launch(): what the parent process does.  The inputs are the results of the
\* system calls: stat, the two pipe calls and fork.
launch(statOk, pipe1Ok, pipe2Ok, forkOk) ==
    /\ kpc = "idle"
    /\ launches < budget.launches
    /\ launches' = launches + 1
    /\ LET stdinPipes == PipeFds(openFds)
           open1 == openFds \cup {stdinPipes[1], stdinPipes[2]}
           stdoutPipes == PipeFds(open1)
           open2 == open1 \cup {stdoutPipes[1], stdoutPipes[2]}
           pid == NewPid
       IN  IF ~statOk \/ ~pipe1Ok
           THEN /\ launchRet' = "false"
                /\ UNCHANGED <<childPid_, stdinPipeFD_, stdoutPipeFD_, openFds,
                               procs>>
           ELSE IF ~pipe2Ok
           THEN /\ launchRet' = "false"
                /\ openFds' = open1 \ ClosedOnPipeFailure(stdinPipes)
                /\ UNCHANGED <<childPid_, stdinPipeFD_, stdoutPipeFD_, procs>>
           ELSE IF ~forkOk
           THEN \* childPid_ = fork() is -1
                /\ childPid_' = -1
                /\ launchRet' = "false"
                /\ openFds' = open2 \ ClosedOnForkFailure(stdinPipes, stdoutPipes)
                /\ UNCHANGED <<stdinPipeFD_, stdoutPipeFD_, procs>>
           ELSE /\ childPid_' = pid
                /\ procs' = [p \in DOMAIN procs \cup {pid} |->
                                IF p = pid THEN Forked ELSE procs[p]]
                /\ openFds' = open2 \ ClosedInParent(stdinPipes, stdoutPipes)
                /\ stdinPipeFD_' = stdinPipes[2]
                /\ stdoutPipeFD_' = stdoutPipes[1]
                /\ launchRet' = "true"
    /\ sawExit' = FALSE
    /\ alivePolls' = "none"
    /\ killSent' = FALSE
    /\ finalWaits' = 0
    /\ UNCHANGED <<kpc, i>>

\* the child between fork and execl: execl replaces the image, or returns and
\* the child calls _exit(1)
childExec(pid, execOk) ==
    /\ pid \in DOMAIN procs
    /\ procs[pid].status = "alive"
    /\ procs[pid].image = "fork"
    /\ procs' = [procs EXCEPT ![pid] =
                    IF execOk THEN [@ EXCEPT !.image = "exe"]
                    ELSE [@ EXCEPT !.image = "failed", !.status = "zombie"]]
    /\ UNCHANGED <<childPid_, stdinPipeFD_, stdoutPipeFD_, kpc, i, openFds,
                   launches, launchRet, sawExit, alivePolls, killSent,
                   finalWaits>>

\* the remote UI process terminates by itself (end of input, or any other reason)
childExit(pid) ==
    /\ pid \in DOMAIN procs
    /\ procs[pid].status = "alive"
    /\ procs[pid].image = "exe"
    /\ procs' = [procs EXCEPT ![pid].status = "zombie"]
    /\ UNCHANGED <<childPid_, stdinPipeFD_, stdoutPipeFD_, kpc, i, openFds,
                   launches, launchRet, sawExit, alivePolls, killSent,
                   finalWaits>>

\* the kernel terminates a process that has SIGKILL pending
kernelKill(pid) ==
    /\ pid \in DOMAIN procs
    /\ procs[pid].status = "alive"
    /\ procs[pid].sigkill
    /\ procs' = [procs EXCEPT ![pid].status = "zombie"]
    /\ UNCHANGED <<childPid_, stdinPipeFD_, stdoutPipeFD_, kpc, i, openFds,
                   launches, launchRet, sawExit, alivePolls, killSent,
                   finalWaits>>

\* waitpid(pid, &status, WNOHANG): 0 while the child runs, the pid when it
\* reaps a terminated child, -1 (ECHILD) when there is nothing to wait for
WaitNoHang(pid) ==
    IF pid \notin DOMAIN procs \/ procs[pid].status = "reaped" THEN -1
    ELSE IF procs[pid].status = "zombie" THEN pid
    ELSE 0

\* waitpid reaps a terminated child
Reap(ps, pid) ==
    IF pid \in DOMAIN ps /\ ps[pid].status = "zombie"
    THEN [ps EXCEPT ![pid] = [status |-> "reaped", image |-> "none",
                              sigkill |-> FALSE]]
    ELSE ps

\* (variant: a signal the child is free to ignore)
SendKill_Ignorable(ps, pid) == ps

\* kill(pid, SIGKILL)
SendKill(ps, pid) ==
    IF pid \in DOMAIN ps /\ ps[pid].status = "alive"
    THEN [ps EXCEPT ![pid].sigkill = TRUE]
    ELSE ps

\* if (result != 0) { childPid_ = 0; break; }
PollSaysExited(result) == result # 0

\* (variant: the test "still alive" after the grace loop is missing)
AfterGraceLoop_NoTest(pid) == "kill"

\* where stop() continues after the grace loop: if (childPid_ > 0) kill ...
AfterGraceLoop(pid) == IF pid > 0 THEN "kill" ELSE "closeOut"

\* (variant: the member keeps the number of the closed descriptor)
AfterClose_Kept(d) == d

\* close(d); member = -1;  -- the value of the member after the close
AfterClose(d) == -1

\* (variant: the block that waits for the child is skipped)
AfterCloseStdin_NoWait(pid) == "closeOut"

\* where stop() continues after closing the stdin pipe: if (childPid_ > 0)
AfterCloseStdin(pid) == IF pid > 0 THEN "poll" ELSE "closeOut"

\* stop(): close stdin pipe first; if (childPid_ > 0) enter the grace loop
stopCloseStdin ==
    /\ kpc = "idle"
    /\ IF stdinPipeFD_ >= 0
       THEN /\ openFds' = openFds \ {stdinPipeFD_}
            /\ stdinPipeFD_' = AfterClose(stdinPipeFD_)
       ELSE UNCHANGED <<openFds, stdinPipeFD_>>
    /\ kpc' = AfterCloseStdin(childPid_)
    /\ i' = 0
    /\ sawExit' = FALSE
    /\ alivePolls' = "none"
    /\ killSent' = FALSE
    /\ finalWaits' = 0
    /\ UNCHANGED <<childPid_, stdoutPipeFD_, procs, launches, launchRet>>

\* one iteration of the grace loop: waitpid(WNOHANG), then break or usleep
stopPoll ==
    /\ kpc = "poll"
    /\ IF i < GracePolls
       THEN LET result == WaitNoHang(childPid_)
            IN  /\ procs' = Reap(procs, childPid_)
                /\ IF PollSaysExited(result)
                   THEN /\ childPid_' = 0
                        /\ sawExit' = TRUE
                        /\ kpc' = AfterGraceLoop(0)
                        /\ UNCHANGED <<i, alivePolls>>
                   ELSE /\ i' = i + 1
                        /\ alivePolls' = IF i + 1 = GracePolls THEN "all" ELSE "some"
                        /\ UNCHANGED <<childPid_, sawExit, kpc>>
       ELSE /\ kpc' = AfterGraceLoop(childPid_)
            /\ UNCHANGED <<procs, childPid_, sawExit, i, alivePolls>>
    /\ UNCHANGED <<stdinPipeFD_, stdoutPipeFD_, openFds, launches, launchRet,
                   killSent, finalWaits>>

\* kill(childPid_, SIGKILL);
stopKill ==
    /\ kpc = "kill"
    /\ procs' = SendKill(procs, childPid_)
    /\ killSent' = TRUE
    /\ kpc' = "wait"
    /\ UNCHANGED <<childPid_, stdinPipeFD_, stdoutPipeFD_, i, openFds, launches,
                   launchRet, sawExit, alivePolls, finalWaits>>

\* waitpid(childPid_, &status, 0); childPid_ = 0;  -- blocks while the child runs
stopWait ==
    /\ kpc = "wait"
    /\ WaitNoHang(childPid_) # 0
    /\ procs' = Reap(procs, childPid_)
    /\ childPid_' = 0
    /\ finalWaits' = finalWaits + 1
    /\ kpc' = "closeOut"
    /\ UNCHANGED <<stdinPipeFD_, stdoutPipeFD_, i, openFds, launches, launchRet,
                   sawExit, alivePolls, killSent>>

\* close stdout pipe after child has exited; stop() returns
stopCloseStdout ==
    /\ kpc = "closeOut"
    /\ IF stdoutPipeFD_ >= 0
       THEN /\ openFds' = openFds \ {stdoutPipeFD_}
            /\ stdoutPipeFD_' = AfterClose(stdoutPipeFD_)
       ELSE UNCHANGED <<openFds, stdoutPipeFD_>>
    /\ kpc' = "idle"
    /\ i' = 0
    /\ UNCHANGED <<childPid_, stdinPipeFD_, procs, launches, launchRet, sawExit,
                   alivePolls, killSent, finalWaits>>

ChildStopStep ==
    \/ stopCloseStdin
    \/ stopPoll
    \/ stopKill
    \/ stopWait
    \/ stopCloseStdout

\* everything but the ChildProcess and the process table
notChild == <<rvars, svars, wvars, budget>>

\* the supervisor on its own: a caller of launch() and stop(), and the OS
NextChildProcess ==
    \/ /\ \E statOk, pipe1Ok, pipe2Ok, forkOk \in BOOLEAN :
             launch(statOk, pipe1Ok, pipe2Ok, forkOk)
       /\ UNCHANGED notChild
    \/ stopCloseStdin /\ UNCHANGED notChild
    \/ stopPoll /\ UNCHANGED notChild
    \/ stopKill /\ UNCHANGED notChild
    \/ stopWait /\ UNCHANGED notChild
    \/ stopCloseStdout /\ UNCHANGED notChild
    \/ /\ \E pid \in DOMAIN procs : \E execOk \in BOOLEAN : childExec(pid, execOk)
       /\ UNCHANGED notChild
    \/ (\E pid \in DOMAIN procs : childExit(pid)) /\ UNCHANGED notChild
    \/ (\E pid \in DOMAIN procs : kernelKill(pid)) /\ UNCHANGED notChild

\* a supervisor nobody has launched yet; no receiver or session is in use
ChildProcessAlone ==
    /\ InitReceiverOf("EventReceiver") /\ InitChildProcess
    /\ InitComposeProviderOn(TRUE)
    /\ budget = [frames |-> 0, launches |-> MaxLaunches, keys |-> {},
                 calls |-> 0, opens |-> 0]

SpecChildProcess == ChildProcessAlone /\ [][NextChildProcess]_vars

\* the control thread keeps executing stop(), the kernel acts on a pending
\* SIGKILL, and a forked child reaches the end of execl
FairSpecChildProcess ==
    /\ SpecChildProcess
    /\ WF_vars(ChildStopStep /\ UNCHANGED notChild)
    /\ WF_vars((\E pid \in DOMAIN procs : kernelKill(pid)) /\ UNCHANGED notChild)

(***************************************************************************)
(* ComposeProvider: the session.  child_ is the ChildProcess above and     *)
(* ipc_ the EventReceiver above, bound to the child's stdout pipe.         *)
(***************************************************************************)

\* surface_.create(pixelW, pixelH) succeeded / surface_.release()
SurfaceCreated == "created"
SurfaceReleased == "none"

\* machPortIPC_.createServer(): the service name is not empty iff a server
\* was registered, which only an __APPLE__ build can do
createServer(a, serverOk) == a /\ serverOk

\* machPortIPC_.destroyServer(): idempotent
destroyServer == FALSE

\* (variant: the rollback forgets surface_.release())
RolledBack_KeepsSurface == [surface_ |-> SurfaceCreated, machServer |-> destroyServer]

\* child_.launch failed: surface_.release(); machPortIPC_.destroyServer();
RolledBack == [surface_ |-> SurfaceReleased, machServer |-> destroyServer]

\* launch(), up to the return after a failed child_.launch.  The inputs are
\* the results of surface_.create, createServer and of the system calls of
\* child_.launch.  The caller launches a session that holds nothing.
\* launch(..., float scale): the scale of the host's display, times 100
Scale == 200

\* where ::write(d, ...) of ipc_ ends up: in the pipe to the child, in a
\* descriptor of the rest of the process that got the same number, or nowhere
WriteResult(d) ==
    IF d \notin openFds THEN "EBADF"
    ELSE IF d \in foreign THEN "stale"
    ELSE "child"

\* ipc_.sendInput(e) / ipc_.sendSurfaceID(id): one write to the descriptor
\* ipc_ was given; halfClosed records that child_ had closed its stdin pipe
Sends(m) ==
    Append(sent, [msg |-> m, result |-> WriteResult(ipcOut),
                  halfClosed |-> stdinPipeFD_ < 0])

\* the message of ipc_.sendSurfaceID(id)
SurfaceIDMessage(id) == [kind |-> "surfaceID", id |-> id]

\* the message of ipc_.sendInput(e)
InputMessage(e) == [kind |-> "input", event |-> e]

launchAcquire(createOk, serverOk, statOk, pipe1Ok, pipe2Ok, forkOk) ==
    /\ spc = "idle"
    /\ surface_ = SurfaceReleased
    /\ slaunches < budget.launches
    /\ slaunches' = slaunches + 1
    /\ teardown' = <<>>
    /\ sent' = <<>>
    /\ ported' = {}
    /\ scale_' = Scale
    /\ IF ~createOk
       THEN /\ sessRet' = "false"
            /\ acquisition' = <<>>
            /\ UNCHANGED <<surface_, generation, machServer, machService, spc,
                           cvars>>
       ELSE /\ launch(statOk, pipe1Ok, pipe2Ok, forkOk)
            /\ generation' = IF launchRet' = "false"
                                 /\ RolledBack.surface_ = SurfaceReleased
                             THEN 0 ELSE 1
            /\ IF launchRet' = "false"
               THEN /\ surface_' = RolledBack.surface_
                    /\ machServer' = RolledBack.machServer
                    /\ machService' = FALSE
                    /\ sessRet' = "false"
                    /\ acquisition' = <<>>
                    /\ UNCHANGED spc
               ELSE /\ surface_' = SurfaceCreated
                    /\ machServer' = createServer(apple, serverOk)
                    /\ machService' = createServer(apple, serverOk)
                    /\ sessRet' = "none"
                    /\ acquisition' =
                          <<"surface">>
                             \o (IF createServer(apple, serverOk)
                                 THEN <<"server">> ELSE <<>>)
                             \o <<"child">>
                    /\ spc' = "ipc"
    /\ UNCHANGED <<apple, budget, wvars, machPortThread_, view_, stopAt,
                   viewSurface, viewPending, ipcOut, rvars>>

\* ipc_.setSocketFD(...); ipc_.setEventHandler(...); ipc_.setFirstFrameHandler(...)
launchSetHandlers ==
    /\ spc = "ipc"
    /\ ipcOut' = stdinPipeFD_
    /\ setCustomEventHandler(TRUE)
    /\ spc' = "start"
    /\ UNCHANGED <<apple, budget, wvars, surface_, machServer, machPortThread_, view_,
                   machService, stopAt, sent, ported, slaunches, sessRet,
                   acquisition, teardown, scale_, generation, viewSurface,
                   viewPending, cvars>>

\* ipc_.startReceiving();
launchStartReceiving ==
    /\ spc = "start"
    /\ start(stdoutPipeFD_)
    /\ spc' = "publish"
    /\ acquisition' = Append(acquisition, "dispatcher")
    /\ UNCHANGED <<apple, budget, wvars, surface_, machServer, machPortThread_, view_,
                   machService, stopAt, shared, sent, ported, slaunches, sessRet,
                   teardown, cvars>>

\* the rest of launch(): the Mach port goes to its own thread, or the surface
\* ID goes over the socket; then the view; return true.  portOk is
\* "surface_.createMachPort() != 0".
launchPublish(portOk) ==
    /\ spc = "publish"
    /\ IF apple /\ machService
       THEN /\ machPortThread_' = IF portOk THEN "sending" ELSE machPortThread_
            /\ ported' = IF portOk
                         THEN ported \cup {generation}
                         ELSE ported
            /\ acquisition' =
                  acquisition \o (IF portOk THEN <<"thread">> ELSE <<>>)
                              \o <<"view">>
            /\ UNCHANGED sent
       ELSE /\ sent' = Sends(SurfaceIDMessage(generation))
            /\ acquisition' = Append(acquisition, "view")
            /\ UNCHANGED <<machPortThread_, ported>>
    /\ view_' = TRUE
    /\ viewSurface' = generation
    /\ machService' = FALSE
    /\ sessRet' = "true"
    /\ spc' = "idle"
    /\ UNCHANGED <<apple, budget, wvars, surface_, machServer, stopAt, slaunches,
                   teardown, scale_, generation, viewPending, ipcOut, rvars,
                   cvars>>

\* the thread of machPortThread_: machPortIPC_.sendPort(surfacePort) returns
sendPortReturn ==
    /\ machPortThread_ = "sending"
    /\ machPortThread_' = "done"
    /\ UNCHANGED <<apple, budget, wvars, surface_, machServer, view_, spc,
                   machService, stopAt, shared, sent, ported, slaunches, sessRet,
                   acquisition, teardown, rvars, cvars>>

\* (variant: the dispatcher is stopped before the child)
StopSequence_DispatcherFirst(a) ==
    (IF a THEN <<"destroyServer", "join">> ELSE <<>>)
       \o <<"ipc_", "child_", "view_", "surface_">>

\* the statements of stop(), in order
StopSequence(a) ==
    (IF a THEN <<"destroyServer", "join">> ELSE <<>>)
       \o <<"child_", "ipc_", "view_", "surface_">>

\* the statement stop() is executing
StopStatement == StopSequence(apple)[stopAt]

\* on to the next statement of stop(), or return
StopAdvance ==
    IF stopAt = Len(StopSequence(apple))
    THEN stopAt' = 0 /\ spc' = "idle"
    ELSE stopAt' = stopAt + 1 /\ UNCHANGED spc

\* the caller enters stop(): explicitly, or through the destructor
stopCall ==
    /\ spc = "idle"
    /\ spc' = "stop"
    /\ stopAt' = 1
    /\ teardown' = <<>>
    /\ acquisition' = IF surface_ = SurfaceReleased THEN <<>> ELSE acquisition
    /\ UNCHANGED <<apple, budget, wvars, surface_, machServer, machPortThread_, view_,
                   machService, shared, sent, ported, slaunches, sessRet, rvars,
                   cvars>>

\* machPortIPC_.destroyServer();
stopDestroyServer ==
    /\ spc = "stop" /\ StopStatement = "destroyServer"
    /\ machServer' = destroyServer
    /\ teardown' = Append(teardown, "server")
    /\ StopAdvance
    /\ UNCHANGED <<apple, budget, wvars, surface_, machPortThread_, view_,
                   machService, shared, sent, ported, slaunches, sessRet,
                   acquisition, rvars, cvars>>

\* if (machPortThread_.joinable()) machPortThread_.join();
stopJoinThread ==
    /\ spc = "stop" /\ StopStatement = "join"
    /\ IF machPortThread_ = "none"
       THEN UNCHANGED <<machPortThread_, teardown>>
       ELSE /\ machPortThread_ = "done"
            /\ machPortThread_' = "none"
            /\ teardown' = Append(teardown, "thread")
    /\ StopAdvance
    /\ UNCHANGED <<apple, budget, wvars, surface_, machServer, view_, machService,
                   shared, sent, ported, slaunches, sessRet, acquisition, rvars,
                   cvars>>

\* child_.stop(); one step of ChildProcess::stop at a time
stopChild ==
    /\ spc = "stop" /\ StopStatement = "child_"
    /\ \/ stopCloseStdin
       \/ stopPoll
       \/ stopKill
       \/ stopWait
       \/ stopCloseStdout
    /\ teardown' = teardown
                      \o (IF kpc = "idle" THEN <<"child:begin">> ELSE <<>>)
                      \o (IF kpc' = "idle" THEN <<"child">> ELSE <<>>)
    /\ IF kpc' = "idle" THEN StopAdvance ELSE UNCHANGED <<stopAt, spc>>
    /\ UNCHANGED <<apple, budget, wvars, surface_, machServer, machPortThread_, view_,
                   machService, shared, sent, ported, slaunches, sessRet,
                   acquisition, rvars>>

\* ipc_.stop(); one step of the receiver's stop() at a time
stopIpc ==
    /\ spc = "stop" /\ StopStatement = "ipc_"
    /\ \/ stopStore
       \/ stopJoin
    /\ teardown' = teardown
                      \o (IF epc = "idle" THEN <<"dispatcher:begin">> ELSE <<>>)
                      \o (IF epc' = "idle" THEN <<"dispatcher">> ELSE <<>>)
    /\ IF epc' = "idle" THEN StopAdvance ELSE UNCHANGED <<stopAt, spc>>
    /\ UNCHANGED <<apple, budget, wvars, surface_, machServer, machPortThread_, view_,
                   machService, shared, sent, ported, slaunches, sessRet,
                   acquisition, cvars>>

\* view_.destroy();
stopView ==
    /\ spc = "stop" /\ StopStatement = "view_"
    /\ view_' = FALSE
    /\ viewSurface' = 0
    /\ viewPending' = 0
    /\ teardown' = Append(teardown, "view")
    /\ StopAdvance
    /\ UNCHANGED <<apple, budget, wvars, surface_, machServer, machPortThread_,
                   machService, sent, ported, slaunches, sessRet, acquisition,
                   scale_, generation, ipcOut, rvars, cvars>>

\* surface_.release();
stopSurface ==
    /\ spc = "stop" /\ StopStatement = "surface_"
    /\ surface_' = SurfaceReleased
    /\ generation' = 0
    /\ teardown' = Append(teardown, "surface")
    /\ StopAdvance
    /\ UNCHANGED <<apple, budget, wvars, machServer, machPortThread_, view_,
                   machService, sent, ported, slaunches, sessRet, acquisition,
                   scale_, viewSurface, viewPending, ipcOut, rvars, cvars>>

(***************************************************************************)
(* ComposeProvider::resize() and sendInput(), called on a thread of their  *)
(* own; the members they use are the ones launch() and stop() use, and no  *)
(* lock is taken by either side                                            *)
(***************************************************************************)
MaxCalls == 1       \* calls of resize() and sendInput() in a behaviour
MaxOpens == 3       \* descriptors the rest of the process opens in a behaviour

\* the <<width, height>> the host resizes the component to
Dimensions == {<<0, 0>>, <<400, 300>>}

\* static_cast<int16_t>(n)
ToInt16(n) ==
    LET m == n % 65536
    IN  IF m >= 32768 THEN m - 65536 ELSE m

\* InputEvent e = {}: the value of a field no factory statement assigns
Unset == 0

\* InputEventFactory::resize(width, height, scale, surfaceID); scale is the
\* scale times 100
InputEventFactory_resize(width, height, scale, surfaceID) ==
    [type |-> "INPUT_EVENT_RESIZE",
     x |-> ToInt16(width),
     y |-> ToInt16(height),
     data1 |-> ToInt16(scale),
     timestamp |-> surfaceID]

\* InputEventFactory::mouseMove(x, y, modifiers): the event sendInput() is
\* called with
InputEventFactory_mouseMove(x, y) ==
    [type |-> "INPUT_EVENT_MOUSE",
     x |-> ToInt16(x),
     y |-> ToInt16(y),
     data1 |-> Unset,
     timestamp |-> Unset]

\* resize(): auto e = InputEventFactory::resize(pixelW, pixelH, scale_);
\* the call gives the factory no surface ID
ResizeEvent == InputEventFactory_resize(pixelW, pixelH, scale_, Unset)

\* surface_.resize(w, h): the generation after an allocation that succeeded
\* (ok) or failed
SurfaceResize(ok) == IF ok THEN generation + 1 ELSE generation

\* (variant: the result of surface_.resize is not tested)
ResizeProceeds_Always(ok) == TRUE

\* resize(): if (surface_.resize(pixelW, pixelH)) { ... }
ResizeProceeds(ok) == ok

\* resize(width, height) up to the test of surface_.resize
resizeCall(width, height, ok) ==
    /\ wpc = "idle"
    /\ sessRet = "true" /\ surface_ = SurfaceCreated
    /\ ncalls < budget.calls
    /\ ncalls' = ncalls + 1
    /\ lastCall' = IF width <= 0 \/ height <= 0 THEN "resize:ignored"
                   ELSE IF ok THEN "resize:ok" ELSE "resize:failed"
    /\ IF width <= 0 \/ height <= 0
       THEN UNCHANGED <<wpc, pixelW, pixelH, generation>>
       ELSE /\ generation' = SurfaceResize(ok)
            /\ IF ResizeProceeds(ok)
               THEN /\ wpc' = "sendInput"
                    /\ pixelW' = (width * scale_) \div 100
                    /\ pixelH' = (height * scale_) \div 100
               ELSE UNCHANGED <<wpc, pixelW, pixelH>>
    /\ UNCHANGED <<apple, budget, foreign, surface_, machServer, machPortThread_,
                   view_, spc, machService, stopAt, sent, ported, slaunches,
                   sessRet, acquisition, teardown, scale_, viewSurface,
                   viewPending, ipcOut, rvars, cvars>>

\* ipc_.sendInput(e);
resizeSendInput ==
    /\ wpc = "sendInput"
    /\ sent' = Sends(InputMessage(ResizeEvent))
    /\ wpc' = "sendSurfaceID"
    /\ UNCHANGED <<apple, budget, pixelW, pixelH, foreign, ncalls, lastCall, surface_,
                   machServer, machPortThread_, view_, spc, machService, stopAt,
                   shared, ported, slaunches, sessRet, acquisition, teardown,
                   rvars, cvars>>

\* ipc_.sendSurfaceID(surface_.getID());
resizeSendSurfaceID ==
    /\ wpc = "sendSurfaceID"
    /\ sent' = Sends(SurfaceIDMessage(generation))
    /\ wpc' = "setPendingSurface"
    /\ UNCHANGED <<apple, budget, pixelW, pixelH, foreign, ncalls, lastCall, surface_,
                   machServer, machPortThread_, view_, spc, machService, stopAt,
                   shared, ported, slaunches, sessRet, acquisition, teardown,
                   rvars, cvars>>

\* view_.setPendingSurface(surface_.getNativeHandle()); return
resizeSetPendingSurface ==
    /\ wpc = "setPendingSurface"
    /\ viewPending' = generation
    /\ wpc' = "idle"
    /\ pixelW' = 0
    /\ pixelH' = 0
    /\ UNCHANGED <<apple, budget, foreign, ncalls, lastCall, surface_, machServer,
                   machPortThread_, view_, spc, machService, stopAt, sent, ported,
                   slaunches, sessRet, acquisition, teardown, scale_, generation,
                   viewSurface, ipcOut, rvars, cvars>>

\* ComposeProvider::sendInput(event)
sendInput(e) ==
    /\ wpc = "idle"
    /\ sessRet = "true"
    /\ ncalls < budget.calls
    /\ ncalls' = ncalls + 1
    /\ lastCall' = "sendInput"
    /\ sent' = Sends(InputMessage(e))
    /\ UNCHANGED <<apple, budget, wpc, pixelW, pixelH, foreign, surface_,
                   machServer, machPortThread_, view_, spc, machService, stopAt,
                   shared, ported, slaunches, sessRet, acquisition, teardown,
                   rvars, cvars>>

\* some other code of the process opens a file: open(), socket(), ...
hostOpen ==
    /\ Cardinality(foreign) < budget.opens
    /\ foreign' = foreign \cup {LowestFree(openFds)}
    /\ openFds' = openFds \cup {LowestFree(openFds)}
    /\ UNCHANGED <<childPid_, stdinPipeFD_, stdoutPipeFD_, kpc, i, procs,
                   launches, launchRet, sawExit, alivePolls, killSent, finalWaits,
                   wpc, pixelW, pixelH, ncalls, lastCall, rvars, svars, budget>>

(***************************************************************************)
(* The receiver on its own: an owner that calls the public interface and    *)
(* registers the handler once, before the first start()                    *)
(***************************************************************************)
OwnerFds == {-1, 3}

\* the callbacks the message thread runs
MessageThreadStep ==
    \/ deliverPop
    \/ deliverCall
    \/ dispatchRun

\* everything but the receiver
notReceiver == <<cvars, svars, wvars, budget>>

NextReceiver ==
    \* the owner
    \/ /\ fd = -1 /\ \E h \in BOOLEAN : setCustomEventHandler(h)
       /\ UNCHANGED notReceiver
    \/ (\E f \in OwnerFds : start(f)) /\ UNCHANGED notReceiver
    \/ stopStore /\ UNCHANGED notReceiver
    \/ stopJoin /\ UNCHANGED notReceiver
    \* the reader thread of an EventReceiver
    \/ LoopTop("EventReceiver") /\ UNCHANGED notReceiver
    \/ readFullyTest("EventReceiver") /\ UNCHANGED notReceiver
    \/ readFullyRead("EventReceiver") /\ UNCHANGED notReceiver
    \/ SanityCheck("EventReceiver") /\ UNCHANGED notReceiver
    \/ Parse("EventReceiver") /\ UNCHANGED notReceiver
    \/ enqueue /\ UNCHANGED notReceiver
    \/ enqueueCallAsync /\ UNCHANGED notReceiver
    \* the reader thread of a UIReceiver
    \/ LoopTop("UIReceiver") /\ UNCHANGED notReceiver
    \/ readFullyTest("UIReceiver") /\ UNCHANGED notReceiver
    \/ readFullyRead("UIReceiver") /\ UNCHANGED notReceiver
    \/ SanityCheck("UIReceiver") /\ UNCHANGED notReceiver
    \/ Parse("UIReceiver") /\ UNCHANGED notReceiver
    \/ dispatch /\ UNCHANGED notReceiver
    \* the message thread
    \/ deliverPop /\ UNCHANGED notReceiver
    \/ deliverCall /\ UNCHANGED notReceiver
    \/ dispatchRun /\ UNCHANGED notReceiver

\* a receiver of either class after construction; no child or session is in use
ReceiverAlone ==
    /\ InitReceiver /\ InitChildProcess /\ InitComposeProviderOn(TRUE)
    /\ budget = [frames |-> MaxFrames, launches |-> 0, keys |-> Keys,
                 calls |-> 0, opens |-> 0]

SpecReceiver == ReceiverAlone /\ [][NextReceiver]_vars

\* the consumer context runs every scheduled callback, and the reader thread,
\* once it has left the critical section of enqueue, reaches callAsync
FairSpecReceiver ==
    /\ SpecReceiver
    /\ WF_vars(MessageThreadStep /\ UNCHANGED notReceiver)
    /\ WF_vars(enqueueCallAsync /\ UNCHANGED notReceiver)

(***************************************************************************)
(* The session: the control thread in launch() and stop(), the reader      *)
(* thread and the message thread of ipc_, the sender thread, and the child *)
(***************************************************************************)
MaxSessionFrames == 1   \* frame headers the child delivers per behaviour
MaxSessionLaunches == 1 \* calls of ComposeProvider::launch() per behaviour

\* the child of the session sends messages of one key; the receiver's
\* properties are checked for all keys under SpecReceiver
SessionKeys == {<<"param", "_", "1">>}

ControlStep ==
    \/ \E createOk, serverOk, statOk, pipe1Ok, pipe2Ok, forkOk \in BOOLEAN :
          launchAcquire(createOk, serverOk, statOk, pipe1Ok, pipe2Ok, forkOk)
    \/ launchSetHandlers
    \/ launchStartReceiving
    \/ \E portOk \in BOOLEAN : launchPublish(portOk)
    \/ stopCall
    \/ stopDestroyServer
    \/ stopJoinThread
    \/ stopChild
    \/ stopIpc
    \/ stopView
    \/ stopSurface

Init ==
    /\ InitReceiverOf("EventReceiver") /\ InitChildProcess /\ InitComposeProvider
    /\ budget = [frames |-> MaxSessionFrames, launches |-> MaxSessionLaunches,
                 keys |-> SessionKeys, calls |-> 0, opens |-> 0]

Next ==
    \/ ControlStep
    \/ sendPortReturn
    \* the reader thread of ipc_
    \/ LoopTop("EventReceiver") /\ UNCHANGED notReceiver
    \/ readFullyTest("EventReceiver") /\ UNCHANGED notReceiver
    \/ readFullyRead("EventReceiver") /\ UNCHANGED notReceiver
    \/ SanityCheck("EventReceiver") /\ UNCHANGED notReceiver
    \/ Parse("EventReceiver") /\ UNCHANGED notReceiver
    \/ enqueue /\ UNCHANGED notReceiver
    \/ enqueueCallAsync /\ UNCHANGED notReceiver
    \* the message thread
    \/ deliverPop /\ UNCHANGED notReceiver
    \/ deliverCall /\ UNCHANGED notReceiver
    \* the child and the kernel
    \/ /\ \E pid \in DOMAIN procs : \E execOk \in BOOLEAN : childExec(pid, execOk)
       /\ UNCHANGED notChild
    \/ (\E pid \in DOMAIN procs : childExit(pid)) /\ UNCHANGED notChild
    \/ (\E pid \in DOMAIN procs : kernelKill(pid)) /\ UNCHANGED notChild

Spec == Init /\ [][Next]_vars

(***************************************************************************)
(* The session with a thread that calls resize() and sendInput(), in a     *)
(* process whose other code opens descriptors; the child sends nothing     *)
(***************************************************************************)
InitWriter ==
    /\ InitReceiverOf("EventReceiver") /\ InitChildProcess /\ InitComposeProvider
    /\ budget = [frames |-> 0, launches |-> MaxSessionLaunches, keys |-> {},
                 calls |-> MaxCalls, opens |-> 0]

NextWriter ==
    \/ ControlStep
    \/ sendPortReturn
    \* the reader thread of ipc_
    \/ LoopTop("EventReceiver") /\ UNCHANGED notReceiver
    \/ readFullyTest("EventReceiver") /\ UNCHANGED notReceiver
    \/ readFullyRead("EventReceiver") /\ UNCHANGED notReceiver
    \* the child and the kernel
    \/ /\ \E pid \in DOMAIN procs : \E execOk \in BOOLEAN : childExec(pid, execOk)
       /\ UNCHANGED notChild
    \/ (\E pid \in DOMAIN procs : childExit(pid)) /\ UNCHANGED notChild
    \/ (\E pid \in DOMAIN procs : kernelKill(pid)) /\ UNCHANGED notChild
    \* the thread that calls resize() and sendInput()
    \/ \E d \in Dimensions : \E ok \in BOOLEAN : resizeCall(d[1], d[2], ok)
    \/ resizeSendInput
    \/ resizeSendSurfaceID
    \/ resizeSetPendingSurface
    \/ sendInput(InputEventFactory_mouseMove(10, 20))

SpecWriter == InitWriter /\ [][NextWriter]_vars

(***************************************************************************)
(* The same, in a process whose other code opens descriptors               *)
(***************************************************************************)
InitHost ==
    /\ InitReceiverOf("EventReceiver") /\ InitChildProcess /\ InitComposeProvider
    /\ budget = [frames |-> 0, launches |-> MaxSessionLaunches, keys |-> {},
                 calls |-> MaxCalls, opens |-> MaxOpens]

NextHost ==
    \/ NextWriter
    \/ hostOpen

SpecHost == InitHost /\ [][NextHost]_vars

(***************************************************************************)
(* The session inside a host process, without calls of resize() and        *)
(* sendInput(), and with the scheduling stop() relies on                   *)
(***************************************************************************)
InitStop ==
    /\ InitReceiverOf("EventReceiver") /\ InitChildProcess /\ InitComposeProvider
    /\ budget = [frames |-> 0, launches |-> MaxSessionLaunches, keys |-> {},
                 calls |-> 0, opens |-> MaxOpens]

NextStop ==
    \/ ControlStep
    \/ sendPortReturn
    \* the reader thread of ipc_
    \/ LoopTop("EventReceiver") /\ UNCHANGED notReceiver
    \/ readFullyTest("EventReceiver") /\ UNCHANGED notReceiver
    \/ readFullyRead("EventReceiver") /\ UNCHANGED notReceiver
    \* the child and the kernel
    \/ /\ \E pid \in DOMAIN procs : \E execOk \in BOOLEAN : childExec(pid, execOk)
       /\ UNCHANGED notChild
    \/ (\E pid \in DOMAIN procs : childExit(pid)) /\ UNCHANGED notChild
    \/ (\E pid \in DOMAIN procs : kernelKill(pid)) /\ UNCHANGED notChild
    \* the rest of the process
    \/ hostOpen

SpecStop == InitStop /\ [][NextStop]_vars

\* the control thread, once inside stop(), keeps executing it
StopStep ==
    \/ stopDestroyServer
    \/ stopJoinThread
    \/ stopChild
    \/ stopIpc
    \/ stopView
    \/ stopSurface

\* ::read(fd, ...) is certain to return: the number is not an open
\* descriptor (EBADF), or it is the pipe and no process holds its write end
\* (end of file); a read of a descriptor of other code may block for ever
ReadMustReturn ==
    \/ fd \notin openFds
    \/ /\ fd \notin foreign
       /\ \A pid \in DOMAIN procs : procs[pid].status # "alive"

\* sendPort() is certain to return: the server it waits on was destroyed
SendPortMustReturn == ~machServer

\* stop() is executed to its end, the kernel acts on a pending SIGKILL, the
\* reader thread runs, and blocking calls return when they are certain to
FairSpecStop ==
    /\ SpecStop
    /\ WF_vars(StopStep)
    /\ WF_vars((\E pid \in DOMAIN procs : kernelKill(pid)) /\ UNCHANGED notChild)
    /\ WF_vars(sendPortReturn /\ SendPortMustReturn)
    /\ WF_vars(LoopTop("EventReceiver") /\ UNCHANGED notReceiver)
    /\ WF_vars(readFullyTest("EventReceiver") /\ UNCHANGED notReceiver)
    /\ WF_vars(readFullyRead("EventReceiver") /\ ReadMustReturn
                  /\ UNCHANGED notReceiver)

(***************************************************************************)
(* Properties of the coalescing dispatcher                                 *)
(***************************************************************************)
Last(q) == q[Len(q)]

\* scheduled-but-not-yet-run deliveries of key k
ScheduledFor(k) ==
    Cardinality({n \in DOMAIN asyncQueue :
                    asyncQueue[n].kind = "enqueue" /\ asyncQueue[n].key = k})

\* the step in which a scheduled delivery of key k begins to run
DeliveryRuns(k) == mpc = "idle" /\ mpc' = "call" /\ lambdaKey' = k

\* the step in which the handler of the EventReceiver is invoked
HandlerInvoked == cls = "EventReceiver" /\ delivered' # delivered

\* C1: when a delivery of key k runs after a burst of two or more messages of
\* key k that were stored while the consumer ran no delivery, it takes the last
\* message of the burst and leaves no entry for k behind, and the handler call
\* that follows hands over exactly that message: one invocation, last value.
C1_Coalescing ==
    [][ /\ \A k \in Keys :
             (DeliveryRuns(k) /\ Len(Burst(k)) >= 2)
                => /\ treeToDispatch' = Last(Burst(k))
                   /\ k \notin DOMAIN pendingTrees'
        /\ (mpc = "call" /\ mpc' = "idle")
             => delivered' = Append(delivered, treeToDispatch)
      ]_vars

\* a burst of at least two messages of one key was coalesced into one handler
\* invocation that carried the last of them
C1_Witness ==
    /\ mpc = "idle"
    /\ Len(lastBurst) >= 2
    /\ Len(delivered) = 1
    /\ delivered[1] = Last(lastBurst)
    /\ delivered[1] # lastBurst[1]

\* C2: every key has at most one scheduled delivery that has not run yet; a
\* delivery reads the value it hands over and erases the entry in one step (the
\* critical section), entries disappear in no other way, and the handler is
\* invoked only with a value so taken (no entry found, no invocation).
C2_OneScheduledAtomicPop ==
    /\ [](\A k \in Keys : ScheduledFor(k) <= 1)
    /\ [][ /\ \A k \in Keys :
                /\ DeliveryRuns(k) =>
                      IF k \in DOMAIN pendingTrees
                      THEN /\ treeToDispatch' = pendingTrees[k]
                           /\ k \notin DOMAIN pendingTrees'
                      ELSE treeToDispatch' = InvalidTree
                /\ (k \in DOMAIN pendingTrees /\ k \notin DOMAIN pendingTrees')
                      => DeliveryRuns(k)
           /\ HandlerInvoked =>
                /\ mpc = "call"
                /\ isValid(treeToDispatch)
                /\ delivered' = Append(delivered, treeToDispatch)
         ]_vars

\* a delivery has taken its key's entry while another key is still scheduled
C2_Witness ==
    /\ mpc = "call"
    /\ isValid(treeToDispatch)
    /\ lambdaKey \notin DOMAIN pendingTrees
    /\ \E k \in Keys : k # lambdaKey /\ ScheduledFor(k) = 1 /\ k \in DOMAIN pendingTrees

RECURSIVE IsSubsequence(_, _)
IsSubsequence(a, b) ==
    IF a = <<>> THEN TRUE
    ELSE IF b = <<>> THEN FALSE
    ELSE IF Head(a) = Head(b) THEN IsSubsequence(Tail(a), Tail(b))
    ELSE IsSubsequence(a, Tail(b))

OfKey(q, k) == SelectSeq(q, LAMBDA t : CoalescingKey(t) = k)

Range(q) == {q[n] : n \in DOMAIN q}

\* key k has received a message / the newest message of key k has been handed
\* to the handler
Received(k) == OfKey(arrived, k) # <<>>
NewestDelivered(k) == Received(k) /\ Last(OfKey(arrived, k)) \in Range(delivered)

\* C3: for every key the values handed to the handler are a subsequence of the
\* values stored for that key, in arrival order; and whenever a key has
\* received a message, the handler is eventually invoked for that key with a
\* value at least as new (no key starves, whatever the other keys do).
C3_OrderedNoStarvation ==
    /\ [](cls = "EventReceiver" =>
            \A k \in Keys : IsSubsequence(OfKey(delivered, k), OfKey(arrived, k)))
    /\ \A k \in Keys :
          (cls = "EventReceiver" /\ Received(k)) ~> NewestDelivered(k)

\* two keys arrived interleaved, both were delivered, one of them twice
C3_Witness ==
    /\ cls = "EventReceiver"
    /\ Len(delivered) = 3
    /\ Len(arrived) = 3
    /\ CoalescingKey(arrived[1]) = CoalescingKey(arrived[3])
    /\ CoalescingKey(arrived[1]) # CoalescingKey(arrived[2])

\* a header value outside 0 < length <= 1 MiB
IllegalLength(s) == s = 0 \/ s > 1048576

\* C4: the step that tests an illegal header length ends the read loop with no
\* buffer allocated and no payload read; from then on the reader thread reads
\* no header, allocates nothing, reads no payload and stores or schedules
\* nothing (until the owner stops it and starts a new reader thread).  cls
\* ranges over EventReceiver and UIReceiver.
C4_FrameBounds ==
    [][ /\ (rpc = "chk" /\ IllegalLength(size) /\ rpc' # "chk")
             => /\ rpc' = "exited"
                /\ violation'
                /\ allocs' = 0 /\ payloadReads' = 0
        /\ (violation /\ violation')
             => /\ rpc' \in {"exited", "none"}
                /\ UNCHANGED <<nframes, allocs, payloadReads, arrived>>
                /\ DOMAIN pendingTrees' \subseteq DOMAIN pendingTrees
                /\ Len(asyncQueue') <= Len(asyncQueue)
      ]_vars

\* the reader ended on a length above 1 MiB although the remote end had more
\* frames to send
C4_Witness ==
    /\ violation
    /\ rpc = "exited"
    /\ running
    /\ nframes = 2
    /\ allocs = 0

(***************************************************************************)
(* Properties of the process supervisor                                    *)
(***************************************************************************)

\* the step in which a call of launch() returns false
LaunchFails == launches' = launches + 1 /\ launchRet' = "false"

\* C5: a launch() that returns false leaves the descriptor table of the host
\* as it was (every descriptor it created is closed again), forks no process,
\* and leaves both pipe fields as they were; on a supervisor that holds no child
\* they are therefore still -1 and isRunning() is false afterwards.
C5_FailedLaunchLeavesNothing ==
    [][ LaunchFails =>
          /\ openFds' = openFds
          /\ procs' = procs
          /\ stdinPipeFD_' = stdinPipeFD_
          /\ stdoutPipeFD_' = stdoutPipeFD_
          /\ (childPid_ <= 0 /\ stdinPipeFD_ = -1 /\ stdoutPipeFD_ = -1)
                => (stdinPipeFD_' = -1 /\ stdoutPipeFD_' = -1 /\ ~isRunning')
      ]_vars

\* fork failed in the first launch(): nothing is left behind
C5_Witness ==
    /\ launches = 1
    /\ launchRet = "false"
    /\ childPid_ = -1
    /\ openFds = {0, 1, 2}
    /\ stdinPipeFD_ = -1 /\ stdoutPipeFD_ = -1
    /\ ~isRunning

\* C6 as claimed: a launch() that returned true has spawned a child that runs
\* the requested executable, never one whose execl failed.
C6_SuccessMeansExecutableRuns ==
    (launchRet = "true" /\ childPid_ > 0) => procs[childPid_].image # "failed"

\* C7: when a poll of the grace loop sees the child gone, it is one of the at
\* most GracePolls polls, no SIGKILL is sent in that stop(), and once stop()
\* has returned isRunning() is false.
C7_GracefulStopSendsNoKill ==
    sawExit =>
       /\ alivePolls # "all"
       /\ ~killSent
       /\ finalWaits = 0
       /\ (kpc = "idle" => ~isRunning)

\* the child exited during the grace window, after some polls found it alive,
\* and stop() has returned
C7_Witness ==
    /\ sawExit
    /\ alivePolls = "some"
    /\ kpc = "idle"
    /\ ~killSent
    /\ childPid_ = 0

\* all polls of the grace loop found the child alive
GraceExpired == alivePolls = "all"

\* C8: when every poll found the child alive, stop() sends SIGKILL and makes
\* one final wait before it closes the stdout pipe and returns, and then
\* childPid_ is 0 and isRunning() is false; and every stop() that has begun
\* returns, with isRunning() false.
C8_ForcefulStopCompletes ==
    /\ []((GraceExpired /\ kpc \in {"wait", "closeOut", "idle"}) => killSent)
    /\ []((GraceExpired /\ kpc \in {"closeOut", "idle"})
             => (finalWaits = 1 /\ childPid_ = 0 /\ ~isRunning))
    /\ (kpc # "idle") ~> (kpc = "idle" /\ ~isRunning)

\* a child that never exited by itself was killed, waited for, and stop() returned
C8_Witness ==
    /\ GraceExpired
    /\ killSent
    /\ finalWaits = 1
    /\ kpc = "idle"
    /\ stdoutPipeFD_ = -1
    /\ ~isRunning

(***************************************************************************)
(* Properties of the session                                               *)
(***************************************************************************)
IsPrefix(s, t) == Len(s) <= Len(t) /\ SubSeq(t, 1, Len(s)) = s

Reverse(s) == [n \in 1 .. Len(s) |-> s[Len(s) + 1 - n]]

\* everything a stop() does, in the order the amended claim states
FullTeardown(withThread) ==
    (IF apple THEN <<"server">> ELSE <<>>)
       \o (IF withThread THEN <<"thread">> ELSE <<>>)
       \o <<"child:begin", "child", "dispatcher:begin", "dispatcher", "view",
            "surface">>

\* the four resources the claim names
Named == {"thread", "child", "dispatcher", "surface"}

NamedOnly(s) == SelectSeq(s, LAMBDA e : e \in Named)

\* a stop() of a launched session has returned
StopReturned ==
    /\ spc = "idle"
    /\ sessRet = "true"
    /\ acquisition # <<>>
    /\ teardown # <<>>
    /\ Last(teardown) = "surface"

\* C9 as stated: stop() releases the sender thread, the child, the dispatcher
\* and the surface in the strict reverse of the order in which launch()
\* acquired them.
C9_StrictReverseOfAcquisition ==
    StopReturned => NamedOnly(teardown) = Reverse(NamedOnly(acquisition))

\* C9 amended: stop() tears down in a fixed order: the sender thread (if one
\* was started) is joined first, then the child is stopped, then the
\* dispatcher is stopped, then the surface is released last; no step begins
\* before the previous one has completed.  (The child is stopped before the
\* dispatcher although launch() started the dispatcher after the child.)
C9_TeardownOrder ==
    /\ \E withThread \in BOOLEAN : IsPrefix(teardown, FullTeardown(withThread))
    /\ ("thread" \in Range(acquisition) /\ "child:begin" \in Range(teardown))
          => "thread" \in Range(teardown)
    /\ kpc # "idle" => machPortThread_ = "none"
    /\ epc = "join" => (kpc = "idle" /\ childPid_ = 0 /\ stdoutPipeFD_ = -1)
    /\ "surface" \in Range(teardown)
          => /\ surface_ = SurfaceReleased
             /\ rpc = "none" /\ epc = "idle"
             /\ kpc = "idle" /\ ~isRunning
             /\ machPortThread_ = "none"

\* a session that had started a sender thread was stopped, and stop() returned
C9_Witness ==
    /\ StopReturned
    /\ apple
    /\ "thread" \in Range(acquisition)
    /\ teardown = FullTeardown(TRUE)
    /\ killSent

\* C10: a launch() that returns failure holds nothing when it returns: the
\* surface is released, the capability server destroyed, no descriptor or
\* process was added, and no reader thread, sender thread or view exists.
C10_LaunchRollback ==
    [][ (slaunches' = slaunches + 1 /\ sessRet' = "false")
           => /\ surface_' = SurfaceReleased
              /\ ~machServer'
              /\ openFds' = openFds
              /\ procs' = procs
              /\ stdinPipeFD_' = -1 /\ stdoutPipeFD_' = -1
              /\ rpc' = "none"
              /\ machPortThread_' = "none"
              /\ ~view_'
              /\ spc' = "idle"
      ]_vars

\* launch() failed at the last point of failure, the fork of child_.launch,
\* in a build that had registered a capability server
C10_Witness ==
    /\ sessRet = "false"
    /\ launchRet = "false"
    /\ childPid_ = -1
    /\ apple
    /\ surface_ = SurfaceReleased
    /\ ~machServer
    /\ spc = "idle"

\* a message that tells the child about a resize: a Resize InputEvent or a
\* surface ID
ResizeTraffic(e) ==
    \/ e.msg.kind = "surfaceID"
    \/ e.msg.event.type = "INPUT_EVENT_RESIZE"

\* what the step has added to the log of sent messages
Added == {sent'[k] : k \in (Len(sent) + 1) .. Len(sent')}

\* C11: a resize() whose surface allocation fails has no effect: the surface
\* keeps its generation, the call returns at once, no Resize InputEvent and
\* no surface ID is sent, and the view keeps its current and its pending
\* surface.
C11_FailedResizeHasNoEffect ==
    [][(ncalls' = ncalls + 1 /\ lastCall' = "resize:failed")
          => /\ generation' = generation
             /\ surface_' = surface_
             /\ wpc' = "idle"
             /\ sent' = sent
             /\ viewSurface' = viewSurface
             /\ viewPending' = viewPending]_vars

\* a resize() whose allocation failed has returned, in a launched session
\* that is displaying its surface
C11_Witness ==
    /\ lastCall = "resize:failed"
    /\ wpc = "idle"
    /\ sessRet = "true" /\ viewSurface = 1 /\ generation = 1

\* C12 as stated: a resize() whose allocation succeeded sends exactly one
\* Resize InputEvent, whose x and y are the new pixel width and height and
\* whose 32-bit timestamp field is the ID of the new surface generation.
C12_ResizeEventCarriesGeneration ==
    [][(wpc = "sendInput" /\ wpc' # wpc /\ surface_ = SurfaceCreated)
          => /\ Len(sent') = Len(sent) + 1
             /\ LET m == sent'[Len(sent')].msg
                IN  /\ m.kind = "input"
                    /\ m.event.type = "INPUT_EVENT_RESIZE"
                    /\ m.event.x = pixelW
                    /\ m.event.y = pixelH
                    /\ m.event.timestamp = generation]_vars

PublishedByID(g) == \E k \in DOMAIN sent : sent[k].msg = SurfaceIDMessage(g)

\* the Mach port of generation g was handed to the sender thread
PublishedByPort(g) == g \in ported

\* C14 as stated: every surface generation is published to the child by
\* exactly one of the two mechanisms, the Mach port or the surface ID, never
\* by both: once launch() has returned true and no resize() is in progress,
\* the current generation has been published by exactly one of them.
C14_ExactlyOneMechanism ==
    (sessRet = "true" /\ spc = "idle" /\ wpc = "idle" /\ surface_ = SurfaceCreated)
       => (PublishedByID(generation) # PublishedByPort(generation))

\* C15 as stated (the write part): a write attempted by resize() or
\* sendInput() after stop() has closed the outbound half of the channel
\* fails with the closed-channel error; it is never written through the
\* stale descriptor.
C15_WriteAfterCloseFailsFast ==
    \A k \in DOMAIN sent : sent[k].halfClosed => sent[k].result = "EBADF"

\* the reader loop has ended by itself, not because stop() cleared running,
\* and the message thread has nothing left to run
ConnectionLost ==
    /\ rpc = "exited" /\ running
    /\ asyncQueue = <<>> /\ mpc = "idle"

\* the consumer was told something that is not a frame the remote end sent:
\* the handler is the only way the receiver reaches its consumer
ClosedSignalled == \E k \in DOMAIN delivered : delivered[k] \notin Range(arrived)

\* C16 as stated: when the reader loop ends because the connection is lost
\* (end of file, short read, read error, protocol violation) and not because
\* of stop(), the consumer is told that the connection is closed.
C16_ConnectionLossIsSignalled == ConnectionLost => ClosedSignalled

\* the child of the last launch() has not exited
ChildStillRuns ==
    /\ childPid_ \in DOMAIN procs
    /\ procs[childPid_].status = "alive"

\* C17 as stated (the value returned): isRunning() returns true exactly when
\* a launched child is still running; it returns false when none was
\* launched, when the child has exited, and after stop().
C17_IsRunningIffChildRuns == isRunning <=> ChildStillRuns

\* C18: a complete frame of legal length whose payload does not decode is
\* dropped and is not fatal: nothing is stored, scheduled or delivered for
\* it, and the reader loop goes on to the next frame with running unchanged.
C18_UndecodableFrameIsDropped ==
    [][(rpc = "parse" /\ rpc' # "parse" /\ ~isValid(tree'))
          => /\ rpc' = "top"
             /\ running' = running
             /\ pendingTrees' = pendingTrees
             /\ asyncQueue' = asyncQueue
             /\ arrived' = arrived
             /\ delivered' = delivered]_vars

\* the first frame did not decode and was dropped; the second frame was
\* decoded and delivered to the handler
C18_Witness ==
    /\ nframes = 2
    /\ Len(arrived) = 1
    /\ arrived[1] \in Trees(2)
    /\ delivered = arrived

\* the step is a waitpid poll of the grace loop, or sends SIGKILL
PollsOrSignals ==
    \/ kpc = "poll" /\ (i' > i \/ (sawExit' /\ ~sawExit))
    \/ killSent' /\ ~killSent

\* the step closes the stdout pipe
ClosesStdout == stdoutPipeFD_ >= 0 /\ stdoutPipeFD_' < 0

\* the process forked by the last launch() that returned true
LastChild == Cardinality(DOMAIN procs)

C20_StopTerminates == (spc = "stop") ~> (spc = "idle")

\* the ChildProcess holds no descriptor and tracks no child
Cleared == stdinPipeFD_ < 0 /\ stdoutPipeFD_ < 0 /\ childPid_ <= 0

\* the step belongs to ChildProcess::stop()
InsideStop == kpc # "idle" \/ kpc' # "idle"

\* C21: ChildProcess::stop() is idempotent and safe in every state: it
\* closes only descriptors that are open, a stop() that returns leaves no
\* descriptor and no child behind, and a stop() that finds none (a second
\* stop(), the destructor after stop(), a stop() with nothing launched)
\* closes nothing, polls nothing, and neither signals nor waits.
C21_StopIsIdempotent ==
    [][InsideStop
          => /\ stdinPipeFD_ >= 0 => stdinPipeFD_ \in openFds
             /\ stdoutPipeFD_ >= 0 => stdoutPipeFD_ \in openFds
             /\ kpc' = "idle" => Cleared'
             /\ Cleared => /\ Cleared'
                            /\ openFds' = openFds
                            /\ alivePolls' = "none" /\ ~sawExit'
                            /\ ~killSent' /\ finalWaits' = 0]_vars

\* a child was launched and stopped, and a second stop() has returned: the
\* record of the first stop() (it saw the exit or killed) has been reset
C21_Witness ==
    /\ kpc = "idle"
    /\ launchRet = "true"
    /\ Cleared
    /\ procs[LastChild].status = "reaped"
    /\ ~sawExit /\ ~killSent

\* EventReceiver::stop() has returned and start() was not called since
Stopped == cls = "EventReceiver" /\ ~running /\ epc = "idle" /\ rpc = "none"

\* C22 as stated: once stop() has returned, the handler is not invoked
\* again and no delivery scheduled earlier touches the pending table.
C22_NoDeliveryAfterStop ==
    [][Stopped => (delivered' = delivered /\ pendingTrees' = pendingTrees)]_vars

\* two messages have the same identity: the same type tag and, for "param"
\* messages, the same id (or both none)
SameIdentity(a, b) ==
    /\ a.type = b.type
    /\ a.type = ParamType => (a.hasId = b.hasId /\ (a.hasId => a.id = b.id))

\* C23 as stated: the coalescing key is injective on message identity: no
\* two messages enqueue() has stored under the same key differ in their type
\* tag or, being "param" messages, in their id.
C23_KeyIsInjective ==
    \A a, b \in Range(arrived) :
        (cls = "EventReceiver" /\ CoalescingKey(a) = CoalescingKey(b))
            => SameIdentity(a, b)

\* every child ever spawned has been reaped
AllReaped == \A p \in DOMAIN procs : procs[p].status = "reaped"

\* the process holds no descriptor beyond its standard three
NoPipeOpen == openFds = {0, 1, 2}

\* C24 as stated: whatever launch()/stop() calls were made, including a
\* launch() while a child is held, when stop() has returned (no call in
\* progress and the three members cleared) every child ever spawned has been
\* reaped and every pipe descriptor ever stored has been closed.
C24_NoChildOrPipeIsLost ==
    (kpc = "idle" /\ Cleared) => (AllReaped /\ NoPipeOpen)

\* the reader thread calls ::read(fd, ...) in this step
ReaderReads == rpc \in {"hdr_read", "pay_read"} /\ rpc' # rpc

\* C25 as stated: whenever the reader thread calls read, the descriptor it
\* reads is still open: no read is issued on the child-to-host descriptor
\* after the supervisor has closed it.
C25_ReadOnlyOnOpenDescriptor ==
    [][ReaderReads => fd \in openFds]_vars

=============================================================================
